---------------------------- MODULE Spec2Model ----------------------------
(***************************************************************************)
(* The Snowflake table resource of terraform-provider-snowflake:           *)
(*   - the TableBuilder that renders SQL text (package snowflake),         *)
(*   - the lifecycle callbacks CreateTable / ReadTable / UpdateTable /     *)
(*     DeleteTable / TableExists and the composite ID codec,               *)
(*   - the statement normaliser behind tableDiffSuppressStatement.         *)
(*                                                                         *)
(* A Go string is a sequence of characters; a character is a one-letter    *)
(* TLA+ string ("<VT>" stands for the vertical tab, which TLA+ cannot      *)
(* write).  fmt.Sprintf with %v verbs on strings is concatenation of the   *)
(* literal pieces of the format and the arguments.                         *)
(***************************************************************************)
EXTENDS Naturals, Sequences, FiniteSets

VARIABLES
    vb,         \* the TableBuilder: [name, db, schema, comment]
    q,          \* the text the last builder call returned
    bcall,      \* the last builder call: [op, arg, pre] (pre: vb before it)
    renamedTo,  \* history: <<newName>> of the latest Rename on vb, or <<>>
    id,         \* schema.ResourceData: d.Id()
    op,         \* the last lifecycle callback
    err,        \* the error it returned ("" is nil)
    exists,     \* the boolean TableExists returned
    log,        \* the statements it handed to the driver, in order
    partial,    \* the keys it passed to d.SetPartial
    fields,     \* the attributes it wrote with d.Set
    call,       \* its inputs: planned and prior attributes, driver outcomes
    idIn,       \* codec: the string given to splitTableID
    idParts,    \* codec: the <<database, schema, name>> the ID was built from
    idOut,      \* codec: what splitTableID returned
    dOld,       \* diff suppression: old
    dNew,       \* diff suppression: new
    dOut        \* diff suppression: the result, or "none" before the call

bvars == <<vb, q, bcall, renamedTo>>
lvars == <<id, op, err, exists, log, partial, fields, call>>
cvars == <<idIn, idParts, idOut>>
dvars == <<dOld, dNew, dOut>>
vars == <<vb, q, bcall, renamedTo, id, op, err, exists, log, partial, fields,
          call, idIn, idParts, idOut, dOld, dNew, dOut>>

-----------------------------------------------------------------------------
(* Strings *)

\* All strings over alphabet A of length at most n.
Str(A, n) == UNION {[1..k -> A] : k \in 0..n}

Empty == <<>>

RECURSIVE Concat(_)
\* strings.Builder / Sprintf: the pieces written, in order.
Concat(pieces) ==
    IF pieces = <<>> THEN <<>> ELSE Head(pieces) \o Concat(Tail(pieces))

\* The literal pieces of the builder's format strings.
txtQuote == <<"\"">>
txtDot == <<".">>
txtCreateOrReplace ==
    <<"C", "R", "E", "A", "T", "E", " ", "O", "R", " ", "R", "E", "P", "L",
      "A", "C", "E">>
txtTable == <<" ", "T", "A", "B", "L", "E", " ">>
txtPlaceholder ==
    <<"(", "p", "l", "a", "c", "e", "h", "o", "l", "d", "e", "r", " ", "v",
      "a", "r", "c", "h", "a", "r", "(", "1", "0", "0", ")", ")">>
txtComment == <<" ", "C", "O", "M", "M", "E", "N", "T", " ", "=", " ", "'">>
txtApostrophe == <<"'">>
txtAlterTable == <<"A", "L", "T", "E", "R", " ", "T", "A", "B", "L", "E", " ">>
txtRenameTo == <<" ", "R", "E", "N", "A", "M", "E", " ", "T", "O", " ">>
txtSetComment ==
    <<" ", "S", "E", "T", " ", "C", "O", "M", "M", "E", "N", "T", " ", "=",
      " ", "'">>
txtUnsetComment ==
    <<" ", "U", "N", "S", "E", "T", " ", "C", "O", "M", "M", "E", "N", "T">>
txtShowLike ==
    <<"S", "H", "O", "W", " ", "T", "A", "B", "L", "E", "S", " ", "L", "I",
      "K", "E", " ", "'">>
txtInDatabase ==
    <<"'", " ", "I", "N", " ", "D", "A", "T", "A", "B", "A", "S", "E", " ",
      "\"">>
txtDropTable == <<"D", "R", "O", "P", " ", "T", "A", "B", "L", "E", " ">>

-----------------------------------------------------------------------------
(* package snowflake: TableBuilder *)

\* Table(name): only the name is set.
Table(name) == [name |-> name, db |-> Empty, schema |-> Empty, comment |-> Empty]

WithComment(b, c) == [b EXCEPT !.comment = c]

WithDB(b, db) == [b EXCEPT !.db = db]

WithSchema(b, s) == [b EXCEPT !.schema = s]

\* QualifiedName with a fault: the schema-only prefix takes the double dot.
QualifiedNameDoubleDot(b) ==
    Concat(<<
        IF b.db # Empty /\ b.schema # Empty
            THEN Concat(<<txtQuote, b.db, txtQuote, txtDot, txtQuote, b.schema,
                          txtQuote, txtDot>>)
            ELSE Empty,
        IF b.db # Empty /\ b.schema = Empty
            THEN Concat(<<txtQuote, b.db, txtQuote, txtDot, txtDot>>)
            ELSE Empty,
        IF b.db = Empty /\ b.schema # Empty
            THEN Concat(<<txtQuote, b.schema, txtQuote, txtDot, txtDot>>)
            ELSE Empty,
        Concat(<<txtQuote, b.name, txtQuote>>) >>)

\* QualifiedName: three independent ifs each append a prefix, then the
\* quoted name is appended.
QualifiedName(b) ==
    Concat(<<
        IF b.db # Empty /\ b.schema # Empty
            THEN Concat(<<txtQuote, b.db, txtQuote, txtDot, txtQuote, b.schema,
                          txtQuote, txtDot>>)
            ELSE Empty,
        IF b.db # Empty /\ b.schema = Empty
            THEN Concat(<<txtQuote, b.db, txtQuote, txtDot, txtDot>>)
            ELSE Empty,
        IF b.db = Empty /\ b.schema # Empty
            THEN Concat(<<txtQuote, b.schema, txtQuote, txtDot>>)
            ELSE Empty,
        Concat(<<txtQuote, b.name, txtQuote>>) >>)

\* Create with a fault: the comment clause is appended whatever the comment.
CreateAlwaysComment(b) ==
    Concat(<<txtCreateOrReplace, txtTable, QualifiedName(b), txtPlaceholder,
             txtComment, b.comment, txtApostrophe>>)

\* Create: the comment clause is appended only for a non-empty comment.
Create(b) ==
    Concat(<<
        txtCreateOrReplace,
        Concat(<<txtTable, QualifiedName(b), txtPlaceholder>>),
        IF b.comment # Empty
            THEN Concat(<<txtComment, b.comment, txtApostrophe>>)
            ELSE Empty >>)

\* Rename with a fault: the name is replaced before the old name is rendered.
RenameNewFirst(b, newName) ==
    LET nb == [b EXCEPT !.name = newName]
    IN  [q |-> Concat(<<txtAlterTable, QualifiedName(nb), txtRenameTo,
                        QualifiedName(nb)>>),
         vb |-> nb]

\* Rename: returns the statement and leaves the builder holding newName.
Rename(b, newName) ==
    LET oldName == QualifiedName(b)
        nb == [b EXCEPT !.name = newName]
    IN  [q |-> Concat(<<txtAlterTable, oldName, txtRenameTo, QualifiedName(nb)>>),
         vb |-> nb]

ChangeComment(b, c) ==
    Concat(<<txtAlterTable, QualifiedName(b), txtSetComment, c, txtApostrophe>>)

\* RemoveComment with a fault: the comment is set to the empty string instead.
RemoveCommentSetEmpty(b) == ChangeComment(b, Empty)

RemoveComment(b) ==
    Concat(<<txtAlterTable, QualifiedName(b), txtUnsetComment>>)

Show(b) ==
    IF b.db = Empty
        THEN Concat(<<txtShowLike, b.name, txtApostrophe>>)
        ELSE Concat(<<txtShowLike, b.name, txtInDatabase, b.db, txtQuote>>)

Drop(b) == Concat(<<txtDropTable, QualifiedName(b)>>)

-----------------------------------------------------------------------------
(* The builder driven call by call *)

MaxIdentLen == 1

BuilderDBs == Str({"D"}, MaxIdentLen)
BuilderSchemas == Str({"S"}, MaxIdentLen)
BuilderNames == Str({"T", "U"}, MaxIdentLen)
Comments == {Empty, <<"h", "i">>}

BCall(o, a, pre) == [op |-> o, arg |-> a, pre |-> pre]

BuilderWithDB(db) ==
    /\ vb' = WithDB(vb, db)
    /\ bcall' = BCall("WithDB", db, vb)
    /\ UNCHANGED <<q, renamedTo, lvars, cvars, dvars>>

BuilderWithSchema(s) ==
    /\ vb' = WithSchema(vb, s)
    /\ bcall' = BCall("WithSchema", s, vb)
    /\ UNCHANGED <<q, renamedTo, lvars, cvars, dvars>>

BuilderWithComment(c) ==
    /\ vb' = WithComment(vb, c)
    /\ bcall' = BCall("WithComment", c, vb)
    /\ UNCHANGED <<q, renamedTo, lvars, cvars, dvars>>

BuilderQualifiedName ==
    /\ q' = QualifiedName(vb)
    /\ bcall' = BCall("QualifiedName", Empty, vb)
    /\ UNCHANGED <<vb, renamedTo, lvars, cvars, dvars>>

BuilderCreate ==
    /\ q' = Create(vb)
    /\ bcall' = BCall("Create", Empty, vb)
    /\ UNCHANGED <<vb, renamedTo, lvars, cvars, dvars>>

BuilderRename(newName) ==
    /\ q' = Rename(vb, newName).q
    /\ vb' = Rename(vb, newName).vb
    /\ bcall' = BCall("Rename", newName, vb)
    /\ renamedTo' = <<newName>>
    /\ UNCHANGED <<lvars, cvars, dvars>>

BuilderChangeComment(c) ==
    /\ q' = ChangeComment(vb, c)
    /\ bcall' = BCall("ChangeComment", c, vb)
    /\ UNCHANGED <<vb, renamedTo, lvars, cvars, dvars>>

BuilderRemoveComment ==
    /\ q' = RemoveComment(vb)
    /\ bcall' = BCall("RemoveComment", Empty, vb)
    /\ UNCHANGED <<vb, renamedTo, lvars, cvars, dvars>>

BuilderShow ==
    /\ q' = Show(vb)
    /\ bcall' = BCall("Show", Empty, vb)
    /\ UNCHANGED <<vb, renamedTo, lvars, cvars, dvars>>

BuilderDrop ==
    /\ q' = Drop(vb)
    /\ bcall' = BCall("Drop", Empty, vb)
    /\ UNCHANGED <<vb, renamedTo, lvars, cvars, dvars>>

-----------------------------------------------------------------------------
(* package resources: the composite ID *)

txtPipe == <<"|">>

RECURSIVE Split(_)
\* strings.Split(v, "|"): the segments between the separators; a string
\* without a separator is its own single segment.
Split(v) ==
    IF \A i \in 1..Len(v) : v[i] # "|"
        THEN <<v>>
        ELSE LET i == CHOOSE k \in 1..Len(v) :
                          v[k] = "|" /\ \A j \in 1..(k - 1) : v[j] # "|"
             IN  <<SubSeq(v, 1, i - 1)>> \o Split(SubSeq(v, i + 1, Len(v)))

\* splitTableID with a fault: only too few segments are refused, and extra
\* segments are dropped.
splitTableIDAtLeast(v) ==
    LET arr == Split(v)
    IN  IF Len(arr) < 3
            THEN [ok |-> FALSE, db |-> Empty, schema |-> Empty, table |-> Empty]
            ELSE [ok |-> TRUE, db |-> arr[1], schema |-> arr[2], table |-> arr[3]]

\* splitTableID: exactly three segments, or an error and three empty strings.
splitTableID(v) ==
    LET arr == Split(v)
    IN  IF Len(arr) # 3
            THEN [ok |-> FALSE, db |-> Empty, schema |-> Empty, table |-> Empty]
            ELSE [ok |-> TRUE, db |-> arr[1], schema |-> arr[2], table |-> arr[3]]

\* fmt.Sprintf("%v|%v|%v", database, schema, name)
TableID(database, schema, name) ==
    Concat(<<database, txtPipe, schema, txtPipe, name>>)

-----------------------------------------------------------------------------
(* package resources: the lifecycle callbacks *)

ErrNone == ""
ErrInvalidID == "ID is invalid"
ErrCreate == "error creating table"
ErrRename == "error renaming table"
ErrUnsetComment == "error unsetting comment for table"
ErrSetComment == "error updating comment for table"
ErrDelete == "error deleting table"
ErrNoRows == "sql: no rows in result set"
ErrDriver == "driver error"

\* One statement handed to the driver: through snowflake.Exec,
\* snowflake.QueryRow or db.Query.
Stmt(via, sql) == [via |-> via, sql |-> sql]

\* snowflake.Exec and snowflake.QueryRow: each hands its statement to the
\* driver once; the driver's answer is an input of the callback.
Exec(sql) == <<Stmt("Exec", sql)>>
QueryRow(sql) == <<Stmt("QueryRow", sql)>>

\* What the driver can answer to the SHOW statement of a call: an error, no
\* row, or one row whose NULL columns read as "" through sql.NullString.
RowOf(n, s, d) == [kind |-> "row", name |-> n, schema |-> s, database |-> d]
NoRow == [kind |-> "none", name |-> Empty, schema |-> Empty, database |-> Empty]
RowErr == [kind |-> "err", name |-> Empty, schema |-> Empty, database |-> Empty]

\* ScanTable with a fault: an empty result scans as the zero-value record.
ScanTableZeroValue(row) ==
    IF row.kind = "err" THEN [err |-> ErrDriver, v |-> RowOf(Empty, Empty, Empty)]
    ELSE [err |-> ErrNone, v |-> RowOf(row.name, row.schema, row.database)]

\* ScanTable: row.StructScan fails on a driver error and on an empty result
\* (sql.ErrNoRows); otherwise the row is returned.
ScanTable(row) ==
    IF row.kind = "err" THEN [err |-> ErrDriver, v |-> RowOf(Empty, Empty, Empty)]
    ELSE IF row.kind = "none"
        THEN [err |-> ErrNoRows, v |-> RowOf(Empty, Empty, Empty)]
    ELSE [err |-> ErrNone, v |-> row]

\* What a callback leaves behind: the ID, the error returned, the statements
\* executed, the keys given to SetPartial, the attributes written by d.Set
\* (<<>> when none is written) and, for TableExists, the boolean.
Outcome(i, e, l, p, f, x) ==
    [id |-> i, err |-> e, log |-> l, partial |-> p, fields |-> f, exists |-> x]

\* ReadTable with a fault: the statement is sent again when the scan fails.
RunReadTableRetry(idv, row) ==
    LET t == splitTableID(idv)
        sql == Show(WithSchema(WithDB(Table(t.table), t.db), t.schema))
        sc == ScanTable(row)
    IN  IF ~t.ok THEN Outcome(idv, ErrInvalidID, <<>>, {}, <<>>, FALSE)
        ELSE IF sc.err # ErrNone
            THEN Outcome(idv, sc.err,
                         QueryRow(sql) \o QueryRow(sql),
                         {}, <<>>, FALSE)
        ELSE Outcome(idv, ErrNone, QueryRow(sql), {},
                     <<[name |-> sc.v.name, schema |-> sc.v.schema,
                        database |-> sc.v.database]>>, FALSE)

\* ReadTable on ID idv when the driver answers row.  d.Set on the string
\* attributes name, schema and database does not fail.
RunReadTable(idv, row) ==
    LET t == splitTableID(idv)
        sql == Show(WithSchema(WithDB(Table(t.table), t.db), t.schema))
        sc == ScanTable(row)
    IN  IF ~t.ok THEN Outcome(idv, ErrInvalidID, <<>>, {}, <<>>, FALSE)
        ELSE IF sc.err # ErrNone
            THEN Outcome(idv, sc.err, QueryRow(sql), {}, <<>>, FALSE)
        ELSE Outcome(idv, ErrNone, QueryRow(sql), {},
                     <<[name |-> sc.v.name, schema |-> sc.v.schema,
                        database |-> sc.v.database]>>, FALSE)

\* The planned attributes, the prior name and comment, and what the driver
\* answers: to the first Exec, to the second Exec, to the SHOW statement.
Inputs(n, d, s, c, on, oc, e1, e2, r) ==
    [name |-> n, database |-> d, schema |-> s, comment |-> c, oldName |-> on,
     oldComment |-> oc, exec1 |-> e1, exec2 |-> e2, row |-> r]

\* CreateTable with a fault: the ID is assigned before the statement runs.
RunCreateTableIdFirst(in) ==
    LET b0 == WithSchema(WithDB(Table(in.name), in.database), in.schema)
        sql == Create(IF in.comment # Empty THEN WithComment(b0, in.comment) ELSE b0)
        newId == TableID(in.database, in.schema, in.name)
        rd == RunReadTable(newId, in.row)
    IN  IF ~in.exec1
            THEN Outcome(newId, ErrCreate, Exec(sql), {}, <<>>, FALSE)
            ELSE Outcome(newId, rd.err, Exec(sql) \o rd.log, {},
                         rd.fields, FALSE)

\* CreateTable on a ResourceData without an ID: GetOk reports a key as set
\* when its value is not the zero value "".
RunCreateTable(in) ==
    LET b0 == WithSchema(WithDB(Table(in.name), in.database), in.schema)
        b1 == IF in.comment # Empty THEN WithComment(b0, in.comment) ELSE b0
        b2 == IF in.schema # Empty THEN WithSchema(b1, in.schema) ELSE b1
        sql == Create(b2)
        newId == TableID(in.database, in.schema, in.name)
        rd == RunReadTable(newId, in.row)
    IN  IF ~in.exec1
            THEN Outcome(Empty, ErrCreate, Exec(sql), {}, <<>>, FALSE)
            ELSE Outcome(newId, rd.err, Exec(sql) \o rd.log, {},
                         rd.fields, FALSE)

\* The builder every callback but CreateTable makes from the decoded ID.
BuilderOf(t) == WithSchema(WithDB(Table(t.table), t.db), t.schema)

\* UpdateTable with a fault: a failed comment statement restores the old ID.
RunUpdateTableRollback(idv, in) ==
    LET t == splitTableID(idv)
        nameChg == in.oldName # in.name
        commentChg == in.oldComment # in.comment
        rn == Rename(BuilderOf(t), in.name)
        log1 == IF nameChg THEN Exec(rn.q) ELSE <<>>
        id1 == IF nameChg THEN TableID(t.db, t.schema, in.name) ELSE idv
        b1 == IF nameChg THEN rn.vb ELSE BuilderOf(t)
        p1 == IF nameChg THEN {"name"} ELSE {}
        sql2 == IF in.comment = Empty THEN RemoveComment(b1)
                                     ELSE ChangeComment(b1, in.comment)
        log2 == IF commentChg THEN log1 \o Exec(sql2) ELSE log1
        rd == RunReadTable(id1, in.row)
    IN  IF ~t.ok THEN Outcome(idv, ErrInvalidID, <<>>, {}, <<>>, FALSE)
        ELSE IF nameChg /\ ~in.exec1
            THEN Outcome(idv, ErrRename, log1, {}, <<>>, FALSE)
        ELSE IF commentChg /\ ~in.exec2
            THEN Outcome(idv,
                         IF in.comment = Empty THEN ErrUnsetComment
                                               ELSE ErrSetComment,
                         log2, {}, <<>>, FALSE)
        ELSE Outcome(id1, rd.err, log2 \o rd.log,
                     p1 \cup (IF commentChg THEN {"comment"} ELSE {}),
                     rd.fields, FALSE)

\* UpdateTable on ID idv.  HasChange(k) compares the prior and the planned
\* value of k; GetChange(k) yields the planned one.  The rename comes first
\* and a failed Exec returns at once; the trailing ReadTable reads the ID as
\* it then is.
RunUpdateTable(idv, in) ==
    LET t == splitTableID(idv)
        nameChg == in.oldName # in.name
        commentChg == in.oldComment # in.comment
        rn == Rename(BuilderOf(t), in.name)
        log1 == IF nameChg THEN Exec(rn.q) ELSE <<>>
        id1 == IF nameChg THEN TableID(t.db, t.schema, in.name) ELSE idv
        b1 == IF nameChg THEN rn.vb ELSE BuilderOf(t)
        p1 == IF nameChg THEN {"name"} ELSE {}
        sql2 == IF in.comment = Empty THEN RemoveComment(b1)
                                     ELSE ChangeComment(b1, in.comment)
        log2 == IF commentChg THEN log1 \o Exec(sql2) ELSE log1
        rd == RunReadTable(id1, in.row)
    IN  IF ~t.ok THEN Outcome(idv, ErrInvalidID, <<>>, {}, <<>>, FALSE)
        ELSE IF nameChg /\ ~in.exec1
            THEN Outcome(idv, ErrRename, log1, {}, <<>>, FALSE)
        ELSE IF commentChg /\ ~in.exec2
            THEN Outcome(id1,
                         IF in.comment = Empty THEN ErrUnsetComment
                                               ELSE ErrSetComment,
                         log2, p1, <<>>, FALSE)
        ELSE Outcome(id1, rd.err, log2 \o rd.log,
                     p1 \cup (IF commentChg THEN {"comment"} ELSE {}),
                     rd.fields, FALSE)

\* DeleteTable on ID idv: the ID is cleared after a successful DROP.
RunDeleteTable(idv, in) ==
    LET t == splitTableID(idv)
        sql == Drop(BuilderOf(t))
    IN  IF ~t.ok THEN Outcome(idv, ErrInvalidID, <<>>, {}, <<>>, FALSE)
        ELSE IF ~in.exec1
            THEN Outcome(idv, ErrDelete, Exec(sql), {}, <<>>, FALSE)
        ELSE Outcome(Empty, ErrNone, Exec(sql), {}, <<>>, FALSE)

\* TableExists on ID idv: true when rows.Next() finds a row.
RunTableExists(idv, in) ==
    LET t == splitTableID(idv)
        sql == Show(BuilderOf(t))
    IN  IF ~t.ok THEN Outcome(idv, ErrInvalidID, <<>>, {}, <<>>, FALSE)
        ELSE IF in.row.kind = "err"
            THEN Outcome(idv, ErrDriver, <<Stmt("Query", sql)>>, {}, <<>>, FALSE)
        ELSE Outcome(idv, ErrNone, <<Stmt("Query", sql)>>, {}, <<>>,
                     in.row.kind = "row")

-----------------------------------------------------------------------------
(* One resource instance driven by the engine *)

PUBLIC == <<"P", "U", "B", "L", "I", "C">>

TableNames == {<<"T">>, <<"U">>, <<"T", "|", "U">>}
PriorNames == {<<"T">>, <<"U">>}
Databases == {<<"D">>, Empty}
Schemas == {PUBLIC, Empty}
CommentChanges == {<<<<"h", "i">>, Empty>>, <<Empty, <<"h", "i">>>>,
                   <<<<"h", "i">>, <<"h", "i">>>>}
Rows == {RowErr, NoRow, RowOf(<<"T">>, PUBLIC, <<"D">>), RowOf(Empty, Empty, Empty)}
ImportIDs ==
    {<<"D", "|", "P", "U", "B", "L", "I", "C", "|", "T">>,
     <<"|", "P", "U", "B", "L", "I", "C", "|", "T">>, <<"D", "|", "T">>}

\* Inputs a callback does not read.
NoInputs == Inputs(Empty, Empty, Empty, Empty, Empty, Empty, TRUE, TRUE, NoRow)

Commit(o, r, in) ==
    /\ id' = r.id
    /\ op' = o
    /\ err' = r.err
    /\ exists' = r.exists
    /\ log' = r.log
    /\ partial' = r.partial
    /\ fields' = r.fields
    /\ call' = [in |-> in, idBefore |-> id]

\* Importer: schema.ImportStatePassthrough keeps the ID the user gave.
ImportStatePassthrough(v) ==
    /\ id = Empty
    /\ Commit("Import", Outcome(v, ErrNone, <<>>, {}, <<>>, FALSE), NoInputs)
    /\ UNCHANGED <<bvars, cvars, dvars>>

CreateTable(in) ==
    /\ id = Empty
    /\ Commit("Create", RunCreateTable(in), in)
    /\ UNCHANGED <<bvars, cvars, dvars>>

ReadTable(in) ==
    /\ id # Empty
    /\ Commit("Read", RunReadTable(id, in.row), in)
    /\ UNCHANGED <<bvars, cvars, dvars>>

UpdateTable(in) ==
    /\ id # Empty
    /\ Commit("Update", RunUpdateTable(id, in), in)
    /\ UNCHANGED <<bvars, cvars, dvars>>

DeleteTable(in) ==
    /\ id # Empty
    /\ Commit("Delete", RunDeleteTable(id, in), in)
    /\ UNCHANGED <<bvars, cvars, dvars>>

TableExists(in) ==
    /\ id # Empty
    /\ Commit("Exists", RunTableExists(id, in), in)
    /\ UNCHANGED <<bvars, cvars, dvars>>

-----------------------------------------------------------------------------
(* package resources: diff suppression *)

VT == "<VT>"

\* The class \s of the regexp package: [\t\n\f\r ].
ReSpace == {" ", "\t", "\n", "\f", "\r"}

\* unicode.IsSpace on the characters below U+0080.
UnicodeSpace == {" ", "\t", "\n", VT, "\f", "\r"}

RECURSIVE SkipRun(_)
\* The rest of str after the run of \s characters that starts it.
SkipRun(str) ==
    IF str # <<>> /\ Head(str) \in ReSpace THEN SkipRun(Tail(str)) ELSE str

RECURSIVE ReplaceAllString(_)
\* tableSpace.ReplaceAllString(str, " ") with tableSpace = \s+ : every
\* leftmost-longest match, a maximal run of \s characters, becomes " ".
ReplaceAllString(str) ==
    IF str = <<>> THEN <<>>
    ELSE IF Head(str) \in ReSpace
        THEN <<" ">> \o ReplaceAllString(SkipRun(str))
    ELSE <<Head(str)>> \o ReplaceAllString(Tail(str))

RECURSIVE TrimLeft(_)
TrimLeft(str) ==
    IF str # <<>> /\ Head(str) \in UnicodeSpace THEN TrimLeft(Tail(str)) ELSE str

RECURSIVE TrimRight(_)
TrimRight(str) ==
    IF str # <<>> /\ str[Len(str)] \in UnicodeSpace
        THEN TrimRight(SubSeq(str, 1, Len(str) - 1))
        ELSE str

\* strings.TrimSpace: leading and trailing Unicode white space removed.
TrimSpace(str) == TrimRight(TrimLeft(str))

\* tableNormalizeQuery with a fault: only leading white space is trimmed.
tableNormalizeQueryLeft(str) == TrimLeft(ReplaceAllString(str))

tableNormalizeQuery(str) == TrimSpace(ReplaceAllString(str))

UpperLetters ==
    <<"A", "B", "C", "D", "E", "F", "G", "H", "I", "J", "K", "L", "M", "N",
      "O", "P", "Q", "R", "S", "T", "U", "V", "W", "X", "Y", "Z">>
LowerLetters ==
    <<"a", "b", "c", "d", "e", "f", "g", "h", "i", "j", "k", "l", "m", "n",
      "o", "p", "q", "r", "s", "t", "u", "v", "w", "x", "y", "z">>

\* The representative of a character under simple case folding.
Fold(c) ==
    IF \E i \in 1..Len(UpperLetters) : UpperLetters[i] = c
        THEN LowerLetters[CHOOSE i \in 1..Len(UpperLetters) : UpperLetters[i] = c]
        ELSE c

\* strings.EqualFold: character by character under case folding.
EqualFold(s, t) ==
    /\ Len(s) = Len(t)
    /\ \A i \in 1..Len(s) : Fold(s[i]) = Fold(t[i])

tableDiffSuppressStatement(old, new) ==
    EqualFold(tableNormalizeQuery(old), tableNormalizeQuery(new))

-----------------------------------------------------------------------------
(* Diff suppression applied to pairs of statements *)

MaxQueryLen == 3

DiffChars == {"s", "S", " ", VT}

SelectTwoSpaces == <<"S", "E", "L", "E", "C", "T", " ", " ", "1">>
SelectLower == <<"s", "e", "l", "e", "c", "t", " ", "1">>

DiffInputs == Str(DiffChars, MaxQueryLen) \cup {SelectTwoSpaces, SelectLower}

SuppressDiff ==
    /\ dOut = <<>>
    /\ dOut' = <<tableDiffSuppressStatement(dOld, dNew)>>
    /\ UNCHANGED <<dOld, dNew, bvars, lvars, cvars>>

-----------------------------------------------------------------------------
(* The ID codec applied to strings and to triples *)

MaxIDLen == 4
MaxPartLen == 1

IDChars == {"D", "T", "|"}

\* The ID CreateTable and UpdateTable assign for a database, schema and name.
EncodeID(d, s, n) ==
    /\ idIn' = TableID(d, s, n)
    /\ idParts' = <<[db |-> d, schema |-> s, table |-> n]>>
    /\ idOut' = <<>>
    /\ UNCHANGED <<bvars, lvars, dvars>>

\* Every callback but CreateTable starts by decoding the ID.
DecodeID ==
    /\ idOut = <<>>
    /\ idOut' = <<splitTableID(idIn)>>
    /\ UNCHANGED <<idIn, idParts, bvars, lvars, dvars>>

-----------------------------------------------------------------------------
(* Specifications *)

BuilderIdle ==
    /\ vb = Table(Empty)
    /\ q = Empty
    /\ bcall = BCall("Table", Empty, Table(Empty))
    /\ renamedTo = <<>>

\* A resource the engine has not created yet.
ResourceAbsent ==
    /\ id = Empty
    /\ op = "none"
    /\ err = ErrNone
    /\ exists = FALSE
    /\ log = <<>>
    /\ partial = {}
    /\ fields = <<>>
    /\ call = [in |-> NoInputs, idBefore |-> Empty]

CodecIdle == idIn = Empty /\ idParts = <<>> /\ idOut = <<>>

DiffIdle == dOld = Empty /\ dNew = Empty /\ dOut = <<>>

Init == ResourceAbsent /\ BuilderIdle /\ CodecIdle /\ DiffIdle

Next ==
    \/ \E v \in ImportIDs : ImportStatePassthrough(v)
    \/ \E n \in TableNames, d \in Databases, s \in Schemas, c \in Comments,
          e1 \in BOOLEAN, r \in Rows :
            CreateTable(Inputs(n, d, s, c, Empty, Empty, e1, TRUE, r))
    \/ \E r \in Rows :
            ReadTable(Inputs(Empty, Empty, Empty, Empty, Empty, Empty, TRUE, TRUE, r))
    \/ \E on \in PriorNames, n \in TableNames, cc \in CommentChanges,
          e1 \in BOOLEAN, e2 \in BOOLEAN, r \in Rows :
            UpdateTable(Inputs(n, Empty, Empty, cc[2], on, cc[1], e1, e2, r))
    \/ \E e1 \in BOOLEAN :
            DeleteTable(Inputs(Empty, Empty, Empty, Empty, Empty, Empty, e1, TRUE, NoRow))
    \/ \E r \in Rows :
            TableExists(Inputs(Empty, Empty, Empty, Empty, Empty, Empty, TRUE, TRUE, r))

Spec == Init /\ [][Next]_vars

InitBuilder ==
    /\ \E n \in BuilderNames :
        /\ vb = Table(n)
        /\ bcall = BCall("Table", n, Table(n))
    /\ q = Empty
    /\ renamedTo = <<>>
    /\ ResourceAbsent /\ CodecIdle /\ DiffIdle

NextBuilder ==
    \/ \E d \in BuilderDBs : BuilderWithDB(d)
    \/ \E s \in BuilderSchemas : BuilderWithSchema(s)
    \/ \E c \in Comments : BuilderWithComment(c)
    \/ BuilderQualifiedName
    \/ BuilderCreate
    \/ \E n \in BuilderNames : BuilderRename(n)
    \/ \E c \in Comments : BuilderChangeComment(c)
    \/ BuilderRemoveComment
    \/ BuilderShow
    \/ BuilderDrop

SpecBuilder == InitBuilder /\ [][NextBuilder]_vars

InitCodec ==
    /\ idIn \in Str(IDChars, MaxIDLen)
    /\ idParts = <<>>
    /\ idOut = <<>>
    /\ ResourceAbsent /\ BuilderIdle /\ DiffIdle

NextCodec ==
    \/ \E d \in Str(IDChars, MaxPartLen), s \in Str(IDChars, MaxPartLen),
          n \in Str(IDChars, MaxPartLen) : EncodeID(d, s, n)
    \/ DecodeID

SpecCodec == InitCodec /\ [][NextCodec]_vars

InitDiff ==
    /\ dOld \in DiffInputs
    /\ dNew \in DiffInputs
    /\ dOut = <<>>
    /\ ResourceAbsent /\ BuilderIdle /\ CodecIdle

NextDiff == SuppressDiff

SpecDiff == InitDiff /\ [][NextDiff]_vars

-----------------------------------------------------------------------------
(* Properties of the builder, under SpecBuilder *)

Quoted(x) == <<"\"">> \o x \o <<"\"">>

\* The four documented shapes of a qualified name.
Shape(db, schema, name) ==
    CASE db # Empty /\ schema # Empty ->
            Quoted(db) \o <<".">> \o Quoted(schema) \o <<".">> \o Quoted(name)
      [] db # Empty /\ schema = Empty -> Quoted(db) \o <<".", ".">> \o Quoted(name)
      [] db = Empty /\ schema # Empty -> Quoted(schema) \o <<".">> \o Quoted(name)
      [] db = Empty /\ schema = Empty -> Quoted(name)

HasDoubleDot(t) == \E i \in 1..(Len(t) - 1) : t[i] = "." /\ t[i + 1] = "."

\* C1: QualifiedName() returns the documented shape for each of the four
\* combinations of database and schema being set or empty, and two adjacent
\* dots appear exactly when the database is set and the schema is empty.
C1_QualifiedNameShapes ==
    bcall.op = "QualifiedName" =>
        /\ q = Shape(vb.db, vb.schema, vb.name)
        /\ HasDoubleDot(q) <=> (vb.db # Empty /\ vb.schema = Empty)

\* QualifiedName() has rendered a builder with a schema and no database.
C1_Witness ==
    /\ bcall.op = "QualifiedName"
    /\ vb.db = Empty /\ vb.schema = <<"S">> /\ vb.name = <<"T">>
    /\ q = <<"\"", "S", "\"", ".", "\"", "T", "\"">>

\* C2: Rename(newName) returns ALTER TABLE <old> RENAME TO <new>, <old>
\* rendered with the name held before the call and <new> with newName under
\* the same database and schema; it leaves database, schema and comment as
\* they were; and every rendering after it uses newName.
C2_RenameUsesOldThenNew ==
    /\ bcall.op = "Rename" =>
        /\ q = txtAlterTable
                 \o Shape(bcall.pre.db, bcall.pre.schema, bcall.pre.name)
                 \o txtRenameTo
                 \o Shape(bcall.pre.db, bcall.pre.schema, bcall.arg)
        /\ vb = [bcall.pre EXCEPT !.name = bcall.arg]
        /\ renamedTo = <<bcall.arg>>
    /\ renamedTo # <<>> =>
        LET qn == Shape(vb.db, vb.schema, renamedTo[1])
        IN  /\ vb.name = renamedTo[1]
            /\ bcall.op = "QualifiedName" => q = qn
            /\ bcall.op = "ChangeComment" =>
                 q = txtAlterTable \o qn \o txtSetComment \o bcall.arg \o <<"'">>
            /\ bcall.op = "RemoveComment" => q = txtAlterTable \o qn \o txtUnsetComment
            /\ bcall.op = "Drop" => q = txtDropTable \o qn
            /\ bcall.op = "Show" =>
                 q = txtShowLike \o renamedTo[1]
                       \o (IF vb.db = Empty THEN <<"'">>
                           ELSE txtInDatabase \o vb.db \o <<"\"">>)

\* A table "D"."S"."T" was renamed to U: the statement names both.
C2_Witness ==
    /\ bcall.op = "Rename"
    /\ bcall.pre.name = <<"T">> /\ bcall.arg = <<"U">>
    /\ q = <<"A", "L", "T", "E", "R", " ", "T", "A", "B", "L", "E", " ", "\"",
             "D", "\"", ".", "\"", "S", "\"", ".", "\"", "T", "\"", " ", "R",
             "E", "N", "A", "M", "E", " ", "T", "O", " ", "\"", "D", "\"", ".",
             "\"", "S", "\"", ".", "\"", "U", "\"">>

-----------------------------------------------------------------------------
(* Properties of the lifecycle callbacks, under Spec *)

Contains(t, piece) ==
    \E i \in 1..(Len(t) + 1 - Len(piece)) : SubSeq(t, i, i + Len(piece) - 1) = piece

IsExec(e) == e.via = "Exec"
IsShow(e) == e.via \in {"QueryRow", "Query"} /\ Contains(e.sql, txtShowLike)
IsRenameStmt(e) == IsExec(e) /\ Contains(e.sql, txtRenameTo)
IsCommentStmt(e) ==
    IsExec(e) /\ (Contains(e.sql, txtSetComment) \/ Contains(e.sql, txtUnsetComment))

Count(l, P(_)) == Cardinality({i \in 1..Len(l) : P(l[i])})

\* The number of "|" in a string decides whether it decodes.
Pipes(v) == Cardinality({i \in 1..Len(v) : v[i] = "|"})
Decodes(v) == Pipes(v) = 2

CommentErrs == {ErrSetComment, ErrUnsetComment}

\* C4, as stated, for calls on an ID that decodes: Create, Read, Delete and
\* Exists execute exactly one statement per call; Update executes at most
\* one rename and at most one comment statement, plus the one SHOW of its
\* trailing Read.
C4_Original ==
    /\ op = "Create" => Len(log) = 1
    /\ (op \in {"Read", "Delete", "Exists"} /\ Decodes(call.idBefore)) =>
        Len(log) = 1
    /\ (op = "Update" /\ Decodes(call.idBefore)) =>
        /\ Count(log, IsRenameStmt) <= 1
        /\ Count(log, IsCommentStmt) <= 1
        /\ Count(log, IsShow) = 1
        /\ Len(log) = Count(log, IsRenameStmt) + Count(log, IsCommentStmt) + 1

\* C4, amended: Read, Delete and Exists execute exactly one statement when
\* the ID decodes and none when it does not.  Create executes its CREATE and,
\* when that succeeded and the ID it assigned decodes, the one SHOW of its
\* trailing Read.  Update executes at most one rename and at most one comment
\* statement, and the one SHOW of its trailing Read follows them only when
\* the ID decoded, no statement failed and the ID still decodes.
C4_StatementCounts ==
    /\ op \in {"Read", "Delete", "Exists"} =>
        Len(log) = IF Decodes(call.idBefore) THEN 1 ELSE 0
    /\ op \in {"Read", "Exists"} => \A i \in 1..Len(log) : IsShow(log[i])
    /\ op = "Delete" => \A i \in 1..Len(log) : IsExec(log[i])
    /\ op = "Create" =>
        /\ Len(log) = IF call.in.exec1 /\ Decodes(id) THEN 2 ELSE 1
        /\ IsExec(log[1])
        /\ Len(log) = 2 => IsShow(log[2])
    /\ op = "Update" =>
        /\ Count(log, IsRenameStmt) <= 1
        /\ Count(log, IsCommentStmt) <= 1
        /\ Count(log, IsExec) = Count(log, IsRenameStmt) + Count(log, IsCommentStmt)
        /\ Count(log, IsShow) =
             IF Decodes(call.idBefore) /\ Decodes(id)
                /\ err \notin ({ErrRename} \cup CommentErrs)
             THEN 1 ELSE 0
        /\ Len(log) = Count(log, IsExec) + Count(log, IsShow)
        /\ Count(log, IsShow) = 1 => IsShow(log[Len(log)])

\* A successful Create executed two statements: the CREATE and the SHOW.
C4_Witness ==
    /\ op = "Create" /\ err = ErrNone
    /\ Len(log) = 2 /\ IsExec(log[1]) /\ IsShow(log[2])

\* C5, as stated: when the SHOW query returns no row, Exists returns false
\* without an error and Read returns without an error, having read a
\* zero-value record.
C5_Original ==
    /\ (op = "Exists" /\ Decodes(call.idBefore) /\ call.in.row = NoRow) =>
        (exists = FALSE /\ err = ErrNone)
    /\ (op = "Read" /\ Decodes(call.idBefore) /\ call.in.row = NoRow) =>
        (err = ErrNone
         /\ fields = <<[name |-> Empty, schema |-> Empty, database |-> Empty]>>)

\* C5, amended: when the SHOW query returns no row, Exists returns false
\* without an error, and Read returns the scan's error (sql.ErrNoRows)
\* without writing any attribute and without changing the ID.
C5_NotFound ==
    /\ (op = "Exists" /\ Decodes(call.idBefore) /\ call.in.row = NoRow) =>
        (exists = FALSE /\ err = ErrNone /\ id = call.idBefore)
    /\ (op = "Read" /\ Decodes(call.idBefore) /\ call.in.row = NoRow) =>
        (err = ErrNoRows /\ fields = <<>> /\ id = call.idBefore)

\* Read ran on a decodable ID and the SHOW query returned no row.
C5_Witness ==
    /\ op = "Read" /\ Decodes(call.idBefore) /\ call.in.row = NoRow
    /\ Len(log) = 1 /\ err = ErrNoRows

NameChanged == call.in.oldName # call.in.name
CommentChanged == call.in.oldComment # call.in.comment
BothChanged == op = "Update" /\ Decodes(call.idBefore) /\ NameChanged /\ CommentChanged

\* The ID a successful rename assigns: the database and schema of the old ID
\* with the planned name.
RenamedID ==
    LET t == splitTableID(call.idBefore)
    IN  t.db \o <<"|">> \o t.schema \o <<"|">> \o call.in.name

\* C6, as stated: in an Update where both name and comment changed, either
\* change ends up applied when its own statement succeeds although the other
\* failed: the comment when the rename failed, and the name (with the ID)
\* when the comment statement failed.
C6_Original ==
    BothChanged =>
        /\ (~call.in.exec1 /\ call.in.exec2) =>
             (Count(log, IsCommentStmt) = 1 /\ "comment" \in partial)
        /\ (call.in.exec1 /\ ~call.in.exec2) =>
             ("name" \in partial /\ id = RenamedID)

\* C6, amended: in an Update where both name and comment changed the rename
\* runs first.  When it fails, Update returns at once: no comment statement
\* is executed, nothing is marked applied and the ID is unchanged.  When it
\* succeeds and the comment statement fails, the name stays applied: the ID
\* already updated by the rename is not rolled back.
C6_PartialUpdate ==
    BothChanged =>
        /\ ~call.in.exec1 =>
            /\ err = ErrRename
            /\ Len(log) = 1 /\ IsRenameStmt(log[1])
            /\ Count(log, IsCommentStmt) = 0
            /\ partial = {}
            /\ id = call.idBefore
        /\ (call.in.exec1 /\ ~call.in.exec2) =>
            /\ err \in CommentErrs
            /\ Len(log) = 2 /\ IsRenameStmt(log[1]) /\ IsCommentStmt(log[2])
            /\ partial = {"name"}
            /\ id = RenamedID

\* The rename succeeded, the comment statement failed, and the ID is the new
\* one.
C6_Witness ==
    /\ BothChanged /\ call.in.exec1 /\ ~call.in.exec2
    /\ err = ErrSetComment
    /\ call.idBefore = <<"D", "|", "P", "U", "B", "L", "I", "C", "|", "T">>
    /\ id = <<"D", "|", "P", "U", "B", "L", "I", "C", "|", "U">>

\* The qualified name of the table an ID names.
QualifiedOf(v) ==
    LET t == splitTableID(v) IN Shape(t.db, t.schema, t.table)

CreateHiStatement ==
    <<"C", "R", "E", "A", "T", "E", " ", "O", "R", " ", "R", "E", "P", "L",
      "A", "C", "E", " ", "T", "A", "B", "L", "E", " ", "\"", "D", "\"", ".",
      "\"", "P", "U", "B", "L", "I", "C", "\"", ".", "\"", "T", "\"", "(", "p",
      "l", "a", "c", "e", "h", "o", "l", "d", "e", "r", " ", "v", "a", "r", "c",
      "h", "a", "r", "(", "1", "0", "0", ")", ")", " ", "C", "O", "M", "M", "E",
      "N", "T", " ", "=", " ", "'", "h", "i", "'">>

CreateHiInputs ==
    /\ call.in.name = <<"T">> /\ call.in.database = <<"D">>
    /\ call.in.schema = PUBLIC /\ call.in.comment = <<"h", "i">>

\* C8: the statement Create() renders, which the Create callback executes
\* first, is CREATE OR REPLACE TABLE <qualified name>(placeholder
\* varchar(100)), followed by " COMMENT = '<c>'" if and only if the comment
\* is not empty; for name T, database D, schema PUBLIC and comment hi it is
\* CREATE OR REPLACE TABLE "D"."PUBLIC"."T"(placeholder varchar(100))
\* COMMENT = 'hi'.
C8_CreateStatement ==
    op = "Create" =>
        LET head == txtCreateOrReplace \o txtTable
                      \o Shape(call.in.database, call.in.schema, call.in.name)
                      \o txtPlaceholder
        IN  /\ IsExec(log[1])
            /\ log[1].sql =
                 IF call.in.comment # Empty
                 THEN head \o txtComment \o call.in.comment \o <<"'">>
                 ELSE head
            /\ Contains(log[1].sql, txtComment) <=> call.in.comment # Empty
            /\ CreateHiInputs => log[1].sql = CreateHiStatement

\* Create ran with name T, database D, schema PUBLIC and comment hi.
C8_Witness ==
    /\ op = "Create" /\ CreateHiInputs
    /\ log[1].sql = CreateHiStatement
    /\ id = <<"D", "|", "P", "U", "B", "L", "I", "C", "|", "T">>

\* C10: a callback changes the ID only after its mutating statement was
\* executed successfully.  A failed CREATE makes Create return an error with
\* the ID still unset; a failed RENAME makes Update return an error with the
\* ID unchanged; a failed DROP makes Delete return an error with the ID
\* unchanged; a successful DROP makes Delete clear the ID.
C10_IdAfterSuccess ==
    /\ (op \in {"Create", "Update", "Delete"} /\ id # call.idBefore) =>
        (log # <<>> /\ IsExec(log[1]) /\ call.in.exec1)
    /\ (op \in {"Read", "Exists"}) => id = call.idBefore
    /\ (op = "Create" /\ ~call.in.exec1) =>
        (err = ErrCreate /\ id = Empty /\ call.idBefore = Empty)
    /\ (op = "Create" /\ call.in.exec1) =>
        id = call.in.database \o <<"|">> \o call.in.schema \o <<"|">> \o call.in.name
    /\ (op = "Update" /\ Decodes(call.idBefore) /\ NameChanged /\ ~call.in.exec1) =>
        (err = ErrRename /\ id = call.idBefore)
    /\ (op = "Delete" /\ Decodes(call.idBefore) /\ ~call.in.exec1) =>
        (err = ErrDelete /\ id = call.idBefore)
    /\ (op = "Delete" /\ Decodes(call.idBefore) /\ call.in.exec1) =>
        (err = ErrNone /\ id = Empty)

\* The DROP statement failed and the ID is still the one Delete was given.
C10_Witness ==
    /\ op = "Delete" /\ ~call.in.exec1
    /\ err = ErrDelete
    /\ Len(log) = 1 /\ Contains(log[1].sql, txtDropTable)
    /\ id = call.idBefore /\ Decodes(id)

-----------------------------------------------------------------------------
(* Properties of the ID codec, under SpecCodec *)

HasPipe(v) == \E i \in 1..Len(v) : v[i] = "|"

\* C3, as stated: for every database, schema and name, decoding the ID built
\* from them yields exactly these three; and every string that does not hold
\* exactly two "|" fails to decode.
C3_Original ==
    idOut # <<>> =>
        /\ idParts # <<>> =>
             idOut[1] = [ok |-> TRUE, db |-> idParts[1].db,
                         schema |-> idParts[1].schema, table |-> idParts[1].table]
        /\ Pipes(idIn) # 2 => ~idOut[1].ok

\* C3, amended: for every database, schema and name none of which contains
\* "|", decoding the ID built from them yields exactly these three; and
\* every string that does not hold exactly two "|" fails to decode.
C3_RoundTrip ==
    idOut # <<>> =>
        /\ (/\ idParts # <<>>
            /\ ~HasPipe(idParts[1].db)
            /\ ~HasPipe(idParts[1].schema)
            /\ ~HasPipe(idParts[1].table)) =>
             idOut[1] = [ok |-> TRUE, db |-> idParts[1].db,
                         schema |-> idParts[1].schema, table |-> idParts[1].table]
        /\ Pipes(idIn) # 2 => ~idOut[1].ok

\* The ID of database D, schema "" and name T was decoded.
C3_Witness ==
    /\ idParts = <<[db |-> <<"D">>, schema |-> Empty, table |-> <<"T">>]>>
    /\ idIn = <<"D", "|", "|", "T">>
    /\ idOut = <<[ok |-> TRUE, db |-> <<"D">>, schema |-> Empty, table |-> <<"T">>]>>

-----------------------------------------------------------------------------
(* Properties of diff suppression, under SpecDiff *)

\* str with every run of characters of class W collapsed to a single space:
\* a character of W that follows another one is dropped, the others become
\* " ".
Collapsed(str, W) ==
    LET kept == {i \in 1..Len(str) : ~(str[i] \in W /\ i > 1 /\ str[i - 1] \in W)}
        nth(k) == CHOOSE i \in kept : Cardinality({j \in kept : j < i}) = k - 1
    IN  [k \in 1..Cardinality(kept) |->
            IF str[nth(k)] \in W THEN " " ELSE str[nth(k)]]

\* str without its leading and trailing characters of class W.
Trimmed(str, W) ==
    LET solid == {i \in 1..Len(str) : str[i] \notin W}
    IN  IF solid = {} THEN <<>>
        ELSE SubSeq(str, CHOOSE i \in solid : \A j \in solid : i <= j,
                         CHOOSE i \in solid : \A j \in solid : j <= i)

\* Equal up to the case of letters.
SameIgnoringCase(s, t) ==
    /\ Len(s) = Len(t)
    /\ \A i \in 1..Len(s) :
        \/ s[i] = t[i]
        \/ \E k \in 1..Len(UpperLetters) :
             {s[i], t[i]} = {UpperLetters[k], LowerLetters[k]}

\* C9, as stated, with white space as Go defines it (unicode.IsSpace): the
\* result is true if and only if old and new are equal, ignoring letter
\* case, after every run of white space is collapsed to a single space and
\* leading and trailing white space is trimmed.
C9_Original ==
    dOut # <<>> =>
        dOut[1] = SameIgnoringCase(
                    Trimmed(Collapsed(dOld, UnicodeSpace), UnicodeSpace),
                    Trimmed(Collapsed(dNew, UnicodeSpace), UnicodeSpace))

\* C9, amended: the result is true if and only if old and new are equal,
\* ignoring letter case, after every run of the regexp class \s (space, tab,
\* newline, form feed, carriage return) is collapsed to a single space and
\* leading and trailing Unicode white space (which also holds the vertical
\* tab) is trimmed; it is reflexive, symmetric, and true for "SELECT  1" and
\* "select 1".
C9_SuppressDiff ==
    dOut # <<>> =>
        /\ dOut[1] = SameIgnoringCase(
                       Trimmed(Collapsed(dOld, ReSpace), UnicodeSpace),
                       Trimmed(Collapsed(dNew, ReSpace), UnicodeSpace))
        /\ dOld = dNew => dOut[1]
        /\ dOut[1] = tableDiffSuppressStatement(dNew, dOld)
        /\ (dOld = SelectTwoSpaces /\ dNew = SelectLower) => dOut[1]

\* "SELECT  1" and "select 1" were compared and the diff is suppressed.
C9_Witness ==
    /\ dOld = SelectTwoSpaces /\ dNew = SelectLower
    /\ dOut = <<TRUE>>

=============================================================================
